---------------------------- MODULE Spec2Model ----------------------------
(***************************************************************************)
(* A model of covid_graph (src/src/main.rs): main() runs                   *)
(*   get_covid_data        CSV files of the archive -> Vec<DataPoint>      *)
(*   get_per_country_data  Vec<DataPoint> -> Vec<RegionData> (HashMap)     *)
(*   draw_evolution_graph  Vec<RegionData> -> four panels of (x, y) series *)
(* one after the other.  Each stage is a group of actions; pc says where   *)
(* the program is.  SpecParse, SpecGroup and SpecDraw start the program at *)
(* the head of one stage with every input that stage can be handed; Spec   *)
(* is the whole of main().  origin is a history variable: the file and the *)
(* record each element of result was parsed from.                          *)
(*                                                                         *)
(* Text is modelled as what the parsers read: a u32 field is a sequence of *)
(* characters and is parsed digit by digit, a timestamp field is a string  *)
(* looked up in the table of the timestamps the model's files use.  A      *)
(* DateTime<Utc> is the number of whole hours since the Unix epoch.  An    *)
(* f32 is the real number it holds: u32 -> f32 rounds to 24 significant    *)
(* bits (F32FromU32), and a per-capita y value is kept as the pair of its  *)
(* numerator and divisor, the f32 quotient itself not being rounded.  The   *)
(* download, the archive and the drawing backend are taken to succeed.     *)
(***************************************************************************)
EXTENDS Integers, Sequences, FiniteSets, TLC

VARIABLES
    files,            \* the archive: a sequence of [name, rows], rows being the
                      \* records csv_reader.records() yields (the header line is
                      \* the reader's own)
    fileIdx,          \* get_covid_data: index of the file being read (1-based)
    rowIdx,           \* get_covid_data: index of the next record of that file
    result,           \* get_covid_data: Vec<DataPoint>
    origin,           \* history: <<file, record>> of each element of result
    log,              \* what println! has written
    recIdx,           \* get_per_country_data: index of the next data_point
    hash,             \* get_per_country_data: HashMap<String, RegionData>
    regions,          \* Vec<RegionData> handed to draw_evolution_graph
    overflow_checks,  \* build profile: TRUE = arithmetic overflow panics
    panel,            \* draw_evolution_graph: the panel being drawn, 1..4
    next_region,      \* position in `regions` the panel's loop is at
    index,            \* the enumerate() counter of the panel's loop
    charts,           \* per panel, the series drawn: [name, index, points]
    pc

vars == <<files, fileIdx, rowIdx, result, origin, log, recIdx, hash, regions,
          overflow_checks, panel, next_region, index, charts, pc>>

parseVars == <<files, fileIdx, rowIdx, origin, log>>
groupVars == <<recIdx, hash>>
drawVars  == <<panel, next_region, index, charts>>

-----------------------------------------------------------------------------
(* Bounds of the model *)

MaxFiles == 2        \* files in the archive
MaxRows == 3         \* records per file
MaxRecords == 4      \* data points handed to get_per_country_data
MaxPoints == 5       \* evolution points over all regions handed to the drawing
MaxDeaths == 1       \* largest death count of a drawn point

-----------------------------------------------------------------------------
(* Integers of the program.  A u32 is kept at its full width as two 16-bit
   limbs [hi, lo], value hi * 2^16 + lo.  An f32 that holds an
   integer is [neg, m, e], value (-1)^neg * m * 2^e with m < 2^24, and e = 0
   or m >= 2^23. *)

LimbBits == 16
MantissaBits == 24

RECURSIVE Pow2(_)
Pow2(n) == IF n = 0 THEN 1 ELSE 2 * Pow2(n - 1)

Limb == Pow2(LimbBits)

(* the u32 of an n in 0..2^31 - 1 *)
U32(n) == [hi |-> n \div Limb, lo |-> n % Limb]

LeqU32(a, b) == a.hi < b.hi \/ (a.hi = b.hi /\ a.lo <= b.lo)

(* a - b on u32: ok = FALSE when it overflows and the build checks overflow
   (the program panics), else the difference modulo 2^32 *)
SubU32(a, b, checked) ==
    LET borrow == IF a.lo < b.lo THEN 1 ELSE 0
        diff == [hi |-> (a.hi - b.hi - borrow + Limb) % Limb,
                 lo |-> (a.lo - b.lo + Limb) % Limb]
    IN  IF LeqU32(b, a) THEN [ok |-> TRUE, val |-> diff]
        ELSE IF checked THEN [ok |-> FALSE, val |-> U32(0)]
        ELSE [ok |-> TRUE, val |-> diff]

(* a + b on u32, likewise *)
AddU32(a, b, checked) ==
    LET carry == (a.lo + b.lo) \div Limb
        high == a.hi + b.hi + carry
        sum == [hi |-> high % Limb, lo |-> (a.lo + b.lo) % Limb]
    IN  IF high < Limb THEN [ok |-> TRUE, val |-> sum]
        ELSE IF checked THEN [ok |-> FALSE, val |-> U32(0)]
        ELSE [ok |-> TRUE, val |-> sum]

(* a / d on u32 for a small d > 0: the integer quotient *)
DivU32(a, d) ==
    [hi |-> a.hi \div d, lo |-> ((a.hi % d) * Limb + a.lo) \div d]

(* a as f32: round to nearest, ties to even, 24 significant bits *)
RECURSIVE ExcessBits(_, _)
ExcessBits(hi, e) ==
    IF hi < Pow2(MantissaBits - LimbBits + e) THEN e ELSE ExcessBits(hi, e + 1)

F32FromU32(a) ==
    LET e == ExcessBits(a.hi, 0)
        unit == Pow2(e)
        q == a.hi * Pow2(LimbBits - e) + a.lo \div unit
        r == a.lo % unit
        up == 2 * r > unit \/ (2 * r = unit /\ q % 2 = 1)
        m == IF up THEN q + 1 ELSE q
    IN  IF e = 0 THEN [neg |-> FALSE, m |-> a.hi * Limb + a.lo, e |-> 0]
        ELSE IF m = Pow2(MantissaBits)
        THEN [neg |-> FALSE, m |-> Pow2(MantissaBits - 1), e |-> e + 1]
        ELSE [neg |-> FALSE, m |-> m, e |-> e]

(* n as f32 for an i64 n with |n| < 2^31 *)
F32FromInt(n) ==
    IF n < 0 THEN [F32FromU32(U32(0 - n)) EXCEPT !.neg = TRUE]
    ELSE F32FromU32(U32(n))

(* the f32 that holds the integer n exactly, |n| < 2^24 *)
F32Exact(n) == [neg |-> n < 0, m |-> IF n < 0 THEN 0 - n ELSE n, e |-> 0]

-----------------------------------------------------------------------------
(* get_covid_data: the text of the archive *)

Digits == <<"0", "1", "2", "3", "4", "5", "6", "7", "8", "9">>

DigitValue(c) == (CHOOSE i \in 1..10 : Digits[i] = c) - 1

IsDigit(c) == \E i \in 1..10 : Digits[i] = c

(* acc * 10 + digit with the overflow check of u32::from_str *)
RECURSIVE ParseDigits(_, _)
ParseDigits(s, acc) ==
    IF s = <<>> THEN [ok |-> TRUE, val |-> acc]
    ELSE IF ~IsDigit(Head(s)) THEN [ok |-> FALSE, val |-> U32(0)]
    ELSE LET low == acc.lo * 10 + DigitValue(Head(s))
             high == acc.hi * 10 + low \div Limb
         IN  IF high >= Limb THEN [ok |-> FALSE, val |-> U32(0)]
             ELSE ParseDigits(Tail(s), [hi |-> high, lo |-> low % Limb])

(* str::parse::<u32>: an optional '+', then one or more digits, no overflow *)
ParseU32(s) ==
    LET body == IF s # <<>> /\ Head(s) = "+" THEN Tail(s) ELSE s
    IN  IF body = <<>> THEN [ok |-> FALSE, val |-> U32(0)]
        ELSE ParseDigits(body, U32(0))

T0Hours == 438792    \* 2020-01-22 00:00:00 UTC in hours since the epoch

(* Utc.datetime_from_str(s, "%Y-%m-%d %H:%M:%S") on the timestamps used *)
TimeTable ==
    [s \in {"2020-03-01 00:00:00", "2020-03-02 00:00:00"} |->
        IF s = "2020-03-01 00:00:00" THEN T0Hours + 936 ELSE T0Hours + 960]

ParseTime(s) ==
    IF s \in DOMAIN TimeTable THEN [ok |-> TRUE, val |-> TimeTable[s]]
    ELSE [ok |-> FALSE, val |-> 0]

(* One record of the csv reader: err = the reader failed on it (record?),
   else its fields. *)
Record(fields) == [err |-> FALSE, fields |-> fields]

RowSpainOk == Record(<<"Spain", "", "2020-03-02 00:00:00", <<"1", "0">>, <<"3">>, <<"0">>>>)
RowItalyOk == Record(<<"Italy", "", "2020-03-01 00:00:00", <<"7">>, <<"1">>, <<"+", "2">>>>)
RowShort == Record(<<"Spain", "", "2020-03-01 00:00:00", <<"1">>, <<"1">>>>)
RowBadTime == Record(<<"Spain", "", "01/03/2020", <<"1">>, <<"1">>, <<"0">>>>)
RowBadDeaths == Record(<<"Spain", "", "2020-03-01 00:00:00", <<"1">>, <<"-", "1">>, <<"0">>>>)
RowUnreadable == [err |-> TRUE, fields |-> <<>>]

Rows == {RowSpainOk, RowItalyOk, RowShort, RowBadTime, RowBadDeaths, RowUnreadable}

FileNames == {"nssac-ncov-sd-03-01-2020.csv", "README.txt"}

(* filename.contains("README") on the file names used *)
ContainsReadme(name) == name = "README.txt"

RECURSIVE SeqsUpTo(_, _)
SeqsUpTo(S, n) ==
    IF n = 0 THEN {<<>>}
    ELSE LET shorter == SeqsUpTo(S, n - 1)
         IN  shorter \cup {Append(s, x) : s \in {t \in shorter : Len(t) = n - 1}, x \in S}

Files == [name : FileNames, rows : SeqsUpTo(Rows, MaxRows)]

(* What parsing one record gives: "skip" (wrong length), "err" (a ? returns
   the error from parse_file) or "ok" with the DataPoint. *)
ParseRecord(rec) ==
    IF rec.err THEN [kind |-> "err"]
    ELSE IF Len(rec.fields) # 6 THEN [kind |-> "skip"]
    ELSE LET f == rec.fields
             last_update == ParseTime(f[3])
             confirmed == ParseU32(f[4])
             deaths == ParseU32(f[5])
             recovered == ParseU32(f[6])
         IN  IF ~last_update.ok \/ ~confirmed.ok \/ ~deaths.ok \/ ~recovered.ok
             THEN [kind |-> "err"]
             ELSE [kind |-> "ok",
                   point |-> [name |-> f[1], region |-> f[2],
                              last_update |-> last_update.val,
                              confirmed |-> confirmed.val,
                              deaths |-> deaths.val,
                              recovered |-> recovered.val]]

-----------------------------------------------------------------------------
(* get_covid_data: the loop over the files and their records *)

CurrentFile == files[fileIdx]

(* for index in 0..file_count: a file whose name contains README is passed over *)
SkipReadme ==
    /\ pc = "files"
    /\ fileIdx <= Len(files)
    /\ ContainsReadme(CurrentFile.name)
    /\ fileIdx' = fileIdx + 1
    /\ UNCHANGED <<files, rowIdx, result, origin, log, pc>>
    /\ UNCHANGED <<groupVars, regions, overflow_checks, drawVars>>

(* any other file gets a csv reader and parse_file() starts on it *)
OpenFile ==
    /\ pc = "files"
    /\ fileIdx <= Len(files)
    /\ ~ContainsReadme(CurrentFile.name)
    /\ rowIdx' = 1
    /\ pc' = "rows"
    /\ UNCHANGED <<files, fileIdx, result, origin, log>>
    /\ UNCHANGED <<groupVars, regions, overflow_checks, drawVars>>

(* One iteration of `for record in csv_reader.records()`.  A wrong-length
   record is printed and passed over; on a record or a field that does not
   parse, ? returns the error from parse_file(): the rest of the file is not
   read, the error is printed and the loop goes to the next file. *)
ReadRecord ==
    /\ pc = "rows"
    /\ rowIdx <= Len(CurrentFile.rows)
    /\ LET parsed == ParseRecord(CurrentFile.rows[rowIdx])
       IN  CASE parsed.kind = "skip" ->
                  /\ log' = Append(log, "Record of wrong length")
                  /\ rowIdx' = rowIdx + 1
                  /\ UNCHANGED <<fileIdx, result, origin, pc>>
             [] parsed.kind = "err" ->
                  /\ log' = Append(log, "Error parsing file")
                  /\ fileIdx' = fileIdx + 1
                  /\ pc' = "files"
                  /\ UNCHANGED <<rowIdx, result, origin>>
             [] parsed.kind = "ok" ->
                  /\ result' = Append(result, parsed.point)
                  /\ origin' = Append(origin, <<fileIdx, rowIdx>>)
                  /\ rowIdx' = rowIdx + 1
                  /\ UNCHANGED <<fileIdx, log, pc>>
    /\ UNCHANGED files
    /\ UNCHANGED <<groupVars, regions, overflow_checks, drawVars>>

(* the records of the file are exhausted: parse_file() returns Ok(()) *)
EndOfFile ==
    /\ pc = "rows"
    /\ rowIdx > Len(CurrentFile.rows)
    /\ fileIdx' = fileIdx + 1
    /\ pc' = "files"
    /\ UNCHANGED <<files, rowIdx, result, origin, log>>
    /\ UNCHANGED <<groupVars, regions, overflow_checks, drawVars>>

(* Ok(result): get_per_country_data starts iterating over it *)
ReturnData ==
    /\ pc = "files"
    /\ fileIdx > Len(files)
    /\ pc' = "group"
    /\ UNCHANGED <<parseVars, result>>
    /\ UNCHANGED <<groupVars, regions, overflow_checks, drawVars>>

NextParse == SkipReadme \/ OpenFile \/ ReadRecord \/ EndOfFile \/ ReturnData

-----------------------------------------------------------------------------
(* get_per_country_data *)

EvolutionPoint(data_point) ==
    [update_time |-> data_point.last_update,
     confirmed |-> data_point.confirmed,
     deaths |-> data_point.deaths,
     recovered |-> data_point.recovered]

(* HashInsert with last-write-wins on the temporal position: a point of a
   time the series already holds replaces the one held *)
HashInsertLastWins(h, data_point) ==
    LET evolution_point == EvolutionPoint(data_point)
        key == data_point.name
        others == IF key \in DOMAIN h
                  THEN SelectSeq(h[key].evolution,
                                 LAMBDA p : p.update_time # evolution_point.update_time)
                  ELSE <<>>
    IN  [k \in DOMAIN h \cup {key} |->
            IF k = key
            THEN [name |-> data_point.name,
                  region |-> IF key \in DOMAIN h THEN h[key].region ELSE data_point.region,
                  evolution |-> Append(others, evolution_point)]
            ELSE h[k]]

(* hash.get_mut(name) -> push, else insert a RegionData holding the one point *)
HashInsert(h, data_point) ==
    LET evolution_point == EvolutionPoint(data_point)
        key == data_point.name
    IN  IF key \in DOMAIN h
        THEN [h EXCEPT ![key].evolution = Append(@, evolution_point)]
        ELSE [k \in DOMAIN h \cup {key} |->
                IF k = key
                THEN [name |-> data_point.name,
                      region |-> data_point.region,
                      evolution |-> <<evolution_point>>]
                ELSE h[k]]

(* one iteration of `for data_point in get_covid_data()?` *)
GroupPoint ==
    /\ pc = "group"
    /\ recIdx <= Len(result)
    /\ hash' = HashInsert(hash, result[recIdx])
    /\ recIdx' = recIdx + 1
    /\ UNCHANGED <<parseVars, result, regions, overflow_checks, drawVars, pc>>

(* The orders hash.values() can iterate in: HashMap fixes none. *)
ValueOrders(h) ==
    {order \in [1..Cardinality(DOMAIN h) -> DOMAIN h] :
        \A i, j \in DOMAIN order : i # j => order[i] # order[j]}

(* hash.values().cloned().collect(); main() hands it to draw_evolution_graph *)
CollectRegions ==
    /\ pc = "group"
    /\ recIdx > Len(result)
    /\ \E order \in ValueOrders(hash) :
          regions' = [i \in DOMAIN order |-> hash[order[i]]]
    /\ pc' = "draw"
    /\ UNCHANGED <<parseVars, result, groupVars, overflow_checks, drawVars>>

NextGroup == GroupPoint \/ CollectRegions

-----------------------------------------------------------------------------
(* draw_evolution_graph *)

population_map ==
    [name \in {"Norway", "Sweden", "Spain", "Germany", "Belgium", "Finland",
               "United Kingdom", "Ireland", "Japan", "Taiwan"} |->
        CASE name = "Norway" -> 5295619
          [] name = "Sweden" -> 10090825
          [] name = "Spain" -> 46752408
          [] name = "Germany" -> 83749987
          [] name = "Belgium" -> 11583221
          [] name = "Finland" -> 5539631
          [] name = "United Kingdom" -> 67886011
          [] name = "Ireland" -> 4937786
          [] name = "Japan" -> 126476461
          [] name = "Taiwan" -> 23816775]

(* population_map.keys().cloned().collect() *)
countries == DOMAIN population_map

NumPanels == 4
AverageWindow == 3
PerCapitaUnit == 100000

(* PanelFilter with the filter left out of every loop *)
PanelFilterNone(p, country) == TRUE

(* PanelFilter with the filter left out of the daily panel's loop *)
PanelFilterDailyUnfiltered(p, country) == p = 2 \/ country.name \in countries

(* .filter(|x| countries.contains(&x.name)) of panel p's loop *)
PanelFilter(p, country) == country.name \in countries

(* .enumerate(): the index the next region that passes the filter gets *)
EnumerateNext(i) == i + 1

(* point.update_time.signed_duration_since(t0).num_hours() as f32 *)
HoursSinceT0(point) == F32FromInt(point.update_time - T0Hours)

(* population_map.get(&country.name).cloned().unwrap() as f32 / 100_000 as f32:
   ok = FALSE when get() gives None and unwrap() panics *)
PopulationOver100k(country) ==
    IF country.name \in DOMAIN population_map
    THEN [ok |-> TRUE,
          num |-> F32FromU32(U32(population_map[country.name])),
          den |-> F32FromU32(U32(PerCapitaUnit))]
    ELSE [ok |-> FALSE, num |-> F32Exact(0), den |-> F32Exact(1)]

Series(kind, points) == [kind |-> kind, points |-> points]

(* "Total Deaths": every point, y = deaths as f32; the label reads
   evolution[len - 1], which panics on an empty evolution *)
TotalDeaths(country) ==
    LET e == country.evolution
    IN  IF Len(e) = 0 THEN Series("index", <<>>)
        ELSE Series("ok", [i \in 1..Len(e) |->
                            [x |-> HoursSinceT0(e[i]), value |-> F32FromU32(e[i].deaths)]])

(* "Total daily Deaths": .enumerate().skip(1), y = (deaths - prev deaths) as f32 *)
DailyDeaths(country, checked) ==
    LET e == country.evolution
        n == IF Len(e) > 1 THEN Len(e) - 1 ELSE 0
        delta(i) == SubU32(e[i].deaths, e[i - 1].deaths, checked)
    IN  IF \E i \in 2..Len(e) : ~delta(i).ok THEN Series("overflow", <<>>)
        ELSE Series("ok", [k \in 1..n |->
                            [x |-> HoursSinceT0(e[k + 1]),
                             value |-> F32FromU32(delta(k + 1).val)]])

(* "Deaths per 100K": every point, y = deaths as f32 / population_over100k *)
DeathsPer100k(country) ==
    LET e == country.evolution
        population_over100k == PopulationOver100k(country)
    IN  IF ~population_over100k.ok THEN Series("unwrap", <<>>)
        ELSE Series("ok", [i \in 1..Len(e) |->
                            [x |-> HoursSinceT0(e[i]),
                             value |-> F32FromU32(e[i].deaths),
                             divisor |-> population_over100k]])

(* (count + prev_1_count + prev_2_count) / 3 on u32, for the point at i >= 4
   (1-based; index 3 of the code): the three differences, their sum, and the
   integer quotient *)
AveragedCount(e, i, checked) ==
    LET count == SubU32(e[i].deaths, e[i - 1].deaths, checked)
        prev_1_count == SubU32(e[i - 1].deaths, e[i - 2].deaths, checked)
        prev_2_count == SubU32(e[i - 2].deaths, e[i - 3].deaths, checked)
        first_sum == AddU32(count.val, prev_1_count.val, checked)
        sum == AddU32(first_sum.val, prev_2_count.val, checked)
    IN  [ok |-> count.ok /\ prev_1_count.ok /\ prev_2_count.ok
                /\ first_sum.ok /\ sum.ok,
         val |-> DivU32(sum.val, AverageWindow)]

(* "Averaged (3 day) Daily Deaths per 100K": .enumerate().skip(3) *)
AveragedDailyDeaths(country, checked) ==
    LET e == country.evolution
        n == IF Len(e) > AverageWindow THEN Len(e) - AverageWindow ELSE 0
        population_over100k == PopulationOver100k(country)
        avg(i) == AveragedCount(e, i, checked)
    IN  IF ~population_over100k.ok THEN Series("unwrap", <<>>)
        ELSE IF \E i \in (AverageWindow + 1)..Len(e) : ~avg(i).ok
        THEN Series("overflow", <<>>)
        ELSE Series("ok", [k \in 1..n |->
                            [x |-> HoursSinceT0(e[k + AverageWindow]),
                             value |-> F32FromU32(avg(k + AverageWindow).val),
                             divisor |-> population_over100k]])

PanelSeries(p, country, checked) ==
    CASE p = 1 -> TotalDeaths(country)
      [] p = 2 -> DailyDeaths(country, checked)
      [] p = 3 -> DeathsPer100k(country)
      [] p = 4 -> AveragedDailyDeaths(country, checked)

(* where the program stops on a panic *)
Panic(kind) ==
    CASE kind = "overflow" -> "panic_overflow"   \* attempt to subtract with overflow
      [] kind = "unwrap" -> "panic_unwrap"       \* unwrap() on a None value
      [] kind = "index" -> "panic_index"         \* evolution[len - 1] of an empty Vec

(* the loop of panel p reaches a region the filter rejects *)
SkipRegion ==
    /\ pc = "draw"
    /\ next_region <= Len(regions)
    /\ ~PanelFilter(panel, regions[next_region])
    /\ next_region' = next_region + 1
    /\ UNCHANGED <<parseVars, result, groupVars, regions, overflow_checks,
                   panel, index, charts, pc>>

(* one iteration of the loop of panel p: cc.draw_series(LineSeries::new(..)),
   or the panic its closure or the unwrap() raises *)
DrawRegion ==
    /\ pc = "draw"
    /\ next_region <= Len(regions)
    /\ PanelFilter(panel, regions[next_region])
    /\ LET country == regions[next_region]
           series == PanelSeries(panel, country, overflow_checks)
       IN  IF series.kind = "ok"
           THEN /\ charts' = [charts EXCEPT ![panel] =
                                Append(@, [name |-> country.name,
                                           index |-> index,
                                           pos |-> next_region,
                                           points |-> series.points])]
                /\ index' = EnumerateNext(index)
                /\ next_region' = next_region + 1
                /\ pc' = pc
           ELSE /\ pc' = Panic(series.kind)
                /\ UNCHANGED <<charts, index, next_region>>
    /\ UNCHANGED <<parseVars, result, groupVars, regions, overflow_checks, panel>>

(* the loop of panel p ends; the series labels are drawn and the next panel starts *)
EndPanel ==
    /\ pc = "draw"
    /\ next_region > Len(regions)
    /\ panel < NumPanels
    /\ panel' = panel + 1
    /\ next_region' = 1
    /\ index' = 0
    /\ UNCHANGED <<parseVars, result, groupVars, regions, overflow_checks, charts, pc>>

(* Ok(()) *)
ReturnOk ==
    /\ pc = "draw"
    /\ next_region > Len(regions)
    /\ panel = NumPanels
    /\ pc' = "done"
    /\ UNCHANGED <<parseVars, result, groupVars, regions, overflow_checks, drawVars>>

NextDraw == SkipRegion \/ DrawRegion \/ EndPanel \/ ReturnOk

-----------------------------------------------------------------------------
(* Specifications *)

NoParse == files = <<>> /\ fileIdx = 1 /\ rowIdx = 1 /\ origin = <<>> /\ log = <<>>
NoGroup == recIdx = 1 /\ hash = <<>>
NoDraw == panel = 1 /\ next_region = 1 /\ index = 0
          /\ charts = [p \in 1..NumPanels |-> <<>>]

(* main(): the archive as downloaded *)
Init ==
    /\ files \in SeqsUpTo(Files, MaxFiles)
    /\ fileIdx = 1 /\ rowIdx = 1 /\ origin = <<>> /\ log = <<>>
    /\ result = <<>>
    /\ NoGroup
    /\ regions = <<>>
    /\ overflow_checks \in BOOLEAN
    /\ NoDraw
    /\ pc = "files"

Next == NextParse \/ NextGroup \/ NextDraw

Spec == Init /\ [][Next]_vars

SpecParse == Init /\ [][NextParse]_vars

(* The data points get_covid_data can return *)
DataPoints ==
    [name : {"Spain", "spain", "Italy"}, region : {""},
     last_update : {T0Hours + 936, T0Hours + 960},
     confirmed : {U32(3)}, deaths : {U32(0), U32(1)}, recovered : {U32(0)}]

GroupInput ==
    /\ NoParse
    /\ result \in SeqsUpTo(DataPoints, MaxRecords)
    /\ NoGroup
    /\ regions = <<>>
    /\ NoDraw
    /\ pc = "group"

(* get_per_country_data on those data points; the grouping does no checked
   arithmetic, so one build profile stands for both *)
InitGroup == GroupInput /\ overflow_checks = FALSE

SpecGroup == InitGroup /\ [][NextGroup]_vars

(* get_per_country_data on those data points, then draw_evolution_graph, in
   either build profile *)
InitGroupDraw == GroupInput /\ overflow_checks \in BOOLEAN

SpecGroupDraw == InitGroupDraw /\ [][NextGroup \/ NextDraw]_vars

(* The Vec<RegionData> get_per_country_data can return: the names differ,
   no evolution is empty, and the points are in the order of the input, which
   fixes neither their times nor their counts. *)
DrawNames == {"Spain", "Norway", "Italy"}

(* update_time of the i-th point of a series of the region: a day apart for
   one region, irregularly apart for another, newest first for the third *)
TimeAt(name, i) ==
    CASE name = "Spain" -> T0Hours + 936 + 24 * i
      [] name = "Norway" -> T0Hours + 936 + 24 * i * i
      [] OTHER -> T0Hours + 1200 - 24 * i

NameOrders ==
    {order \in UNION {[1..k -> DrawNames] : k \in 0..Cardinality(DrawNames)} :
        \A i, j \in DOMAIN order : i # j => order[i] # order[j]}

RECURSIVE SumTo(_, _)
SumTo(lens, k) == IF k = 0 THEN 0 ELSE lens[k] + SumTo(lens, k - 1)

(* the vector of the regions named by order, region i holding lens[i] points
   whose death counts are the next lens[i] entries of deaths *)
RegionVector(order, lens, deaths) ==
    [r \in DOMAIN order |->
        [name |-> order[r], region |-> "",
         evolution |->
            [i \in 1..lens[r] |->
                LET d == deaths[SumTo(lens, r - 1) + i]
                IN  [update_time |-> TimeAt(order[r], i), confirmed |-> U32(d),
                     deaths |-> U32(d), recovered |-> U32(0)]]]]

InitDraw ==
    /\ NoParse
    /\ result = <<>>
    /\ NoGroup
    /\ \E order \in NameOrders :
          \E lens \in [DOMAIN order -> 1..MaxPoints] :
              /\ SumTo(lens, Len(order)) <= MaxPoints
              /\ \E deaths \in [1..SumTo(lens, Len(order)) -> 0..MaxDeaths] :
                    regions = RegionVector(order, lens, deaths)
    /\ overflow_checks \in BOOLEAN
    /\ NoDraw
    /\ pc = "draw"

SpecDraw == InitDraw /\ [][NextDraw]_vars

-----------------------------------------------------------------------------
(* Properties of get_covid_data, checked under SpecParse *)

Returned == pc = "group"       \* get_covid_data has returned Ok(result)

DataFiles == {f \in DOMAIN files : ~ContainsReadme(files[f].name)}

RowKind(f, i) == ParseRecord(files[f].rows[i]).kind

WellFormed(f, i) == RowKind(f, i) = "ok"

WrongLength(f, i) == RowKind(f, i) = "skip"

(* a record of 6 fields, one of which does not parse *)
BadField(f, i) == RowKind(f, i) = "err" /\ ~files[f].rows[i].err

InResult(f, i) ==
    \E k \in DOMAIN origin : origin[k] = <<f, i>> /\ result[k] = ParseRecord(files[f].rows[i]).point

(* C2: when a row has an unparseable timestamp, confirmed, deaths or recovered
   field, only that row is skipped: every well-formed row after it in the same
   file, and every well-formed row of the later files, is in the result of
   get_covid_data. *)
C2_OnlyBadRowSkipped ==
    Returned =>
        \A f \in DataFiles : \A i \in DOMAIN files[f].rows :
            BadField(f, i) =>
                /\ \A j \in DOMAIN files[f].rows :
                      j > i /\ WellFormed(f, j) => InResult(f, j)
                /\ \A g \in DataFiles : \A j \in DOMAIN files[g].rows :
                      g > f /\ WellFormed(g, j) => InResult(g, j)

(* the loop over the records of file f gets as far as record i *)
Reached(f, i) == \A h \in 1..(i - 1) : RowKind(f, h) # "err"

(* C3: a row whose field count is not 6 is skipped and contributes no
   DataPoint, and every other well-formed row of the same file, before and
   after it, is in the result of get_covid_data. *)
C3_WrongLengthSkipNotFatal ==
    Returned =>
        \A f \in DataFiles : \A i \in DOMAIN files[f].rows :
            WrongLength(f, i) /\ Reached(f, i) =>
                /\ \A k \in DOMAIN origin : origin[k] # <<f, i>>
                /\ \A j \in DOMAIN files[f].rows :
                      WellFormed(f, j) => InResult(f, j)

-----------------------------------------------------------------------------
(* Properties of get_per_country_data, checked under SpecGroup *)

Grouped == pc = "draw"         \* get_per_country_data has returned Ok(regions)

Count(seq, x) == Cardinality({i \in DOMAIN seq : seq[i] = x})

RECURSIVE TotalPoints(_)
TotalPoints(rs) ==
    IF rs = <<>> THEN 0 ELSE Len(Head(rs).evolution) + TotalPoints(Tail(rs))

SortedByTime(evolution) ==
    \A i \in 1..(Len(evolution) - 1) :
        evolution[i].update_time <= evolution[i + 1].update_time

(* C1: every region series returned by get_per_country_data has its points
   sorted ascending by update_time. *)
C1_SeriesSortedByTime ==
    Grouped => \A r \in DOMAIN regions : SortedByTime(regions[r].evolution)

(* C4: grouping conserves the records: one series per distinct exact name, no
   series empty, each record is one point of the series of its own name and of
   no other (records with the same name and time stay separate points), and
   the series hold as many points as there are records. *)
C4_GroupingConservesRecords ==
    Grouped =>
        /\ \A r, q \in DOMAIN regions : r # q => regions[r].name # regions[q].name
        /\ {regions[r].name : r \in DOMAIN regions} = {result[k].name : k \in DOMAIN result}
        /\ \A r \in DOMAIN regions : regions[r].evolution # <<>>
        /\ \A r \in DOMAIN regions :
              \A point \in {EvolutionPoint(result[k]) : k \in DOMAIN result} \cup
                           {regions[r].evolution[i] : i \in DOMAIN regions[r].evolution} :
                  Count(regions[r].evolution, point) =
                      Cardinality({k \in DOMAIN result :
                                      /\ result[k].name = regions[r].name
                                      /\ EvolutionPoint(result[k]) = point})
        /\ TotalPoints(regions) = Len(result)

(* two records of one name and one time, and names that differ only in case *)
C4_Witness ==
    /\ Grouped
    /\ \E k, l \in DOMAIN result :
          /\ k # l
          /\ result[k].name = result[l].name
          /\ result[k].last_update = result[l].last_update
    /\ \E r, q \in DOMAIN regions :
          regions[r].name = "Spain" /\ regions[q].name = "spain"

-----------------------------------------------------------------------------
(* Properties of draw_evolution_graph, checked under SpecDraw *)

(* the value of a u32 below 2^31 *)
Small(a) == a.hi * Limb + a.lo

Deaths(e, i) == Small(e[i].deaths)

Plotted(r) == regions[r].name \in countries

(* the evolution a drawn series was computed from *)
EvolutionOf(series) == regions[series.pos].evolution

(* no deaths[i] - deaths[i-1] of the series is below zero *)
NoUnderflow(e) == \A i \in 2..Len(e) : Deaths(e, i) >= Deaths(e, i - 1)

(* delta[i] + delta[i-1] + delta[i-2] for the point at i (1-based, i >= 4) *)
WindowSum(e, i) ==
    (Deaths(e, i) - Deaths(e, i - 1)) + (Deaths(e, i - 1) - Deaths(e, i - 2))
        + (Deaths(e, i - 2) - Deaths(e, i - 3))

(* the f32 v holds an integer whose triple is n *)
TripleIs(v, n) == v.e = 0 /\ (IF v.neg THEN 0 - 3 * v.m ELSE 3 * v.m) = n

RECURSIVE SumValues(_)
SumValues(points) ==
    IF points = <<>> THEN 0
    ELSE (IF Head(points).value.neg THEN 0 - Head(points).value.m
          ELSE Head(points).value.m) + SumValues(Tail(points))

(* C5: in both per-capita panels a division by population is executed only
   for regions whose name is in the population registry: a region absent from
   population_map has no per-capita series, the lookup's unwrap() never
   panics, and the divisor population / 100000 is never zero. *)
C5_PerCapitaOnlyWithPopulation ==
    /\ pc # "panic_unwrap"
    /\ \A p \in {3, 4} : \A k \in DOMAIN charts[p] :
          /\ charts[p][k].name \in DOMAIN population_map
          /\ \A n \in DOMAIN charts[p][k].points :
                LET divisor == charts[p][k].points[n].divisor
                IN  divisor.ok /\ divisor.num.m > 0 /\ divisor.den.m > 0

(* the run ends with a region absent from the registry in the input, and
   per-capita points drawn in both panels *)
C5_Witness ==
    /\ pc = "done"
    /\ \E r \in DOMAIN regions : regions[r].name \notin DOMAIN population_map
    /\ \E k \in DOMAIN charts[3] : charts[3][k].points # <<>>
    /\ \E k \in DOMAIN charts[4] : charts[4][k].points # <<>>

(* C6: the rolling average over the window of 3 daily deltas is the exact
   arithmetic mean: where the three deltas are defined (no subtraction
   underflows), the averaged value before per-capita scaling satisfies
   3 * value = delta[i] + delta[i-1] + delta[i-2]. *)
C6_AverageIsExactMean ==
    \A k \in DOMAIN charts[4] :
        LET e == EvolutionOf(charts[4][k])
            points == charts[4][k].points
        IN  NoUnderflow(e) =>
                \A n \in DOMAIN points :
                    TripleIs(points[n].value, WindowSum(e, n + AverageWindow))

(* len(D) - W + 1 for the daily deltas D of the series, 0 when len(D) < W *)
ExpectedAveraged(e) ==
    IF Len(e) - 1 >= AverageWindow THEN (Len(e) - 1) - AverageWindow + 1 ELSE 0

(* C7: when the run ends, the averaged panel holds for every plotted region
   exactly len(D) - W + 1 points if len(D) >= W, each the average of the W
   deltas ending at that point, and an empty series if len(D) < W. *)
C7_AveragedWindowCount ==
    pc = "done" =>
        \A r \in DOMAIN regions :
            Plotted(r) =>
                \E k \in DOMAIN charts[NumPanels] :
                    LET e == regions[r].evolution
                        points == charts[NumPanels][k].points
                    IN  /\ charts[NumPanels][k].pos = r
                        /\ Len(points) = ExpectedAveraged(e)
                        /\ \A n \in DOMAIN points :
                              TripleIs(points[n].value, WindowSum(e, n + AverageWindow))

(* C8: the daily-delta series of every region series S has len(S) - 1 points,
   the value at point i is deaths[i] - deaths[i-1], and the values sum to
   deaths[last] - deaths[first]; no series fails to be drawn. *)
C8_DailyDeltaTelescopes ==
    /\ ~(pc = "panic_overflow" /\ panel = 2)
    /\ \A k \in DOMAIN charts[2] :
          LET e == EvolutionOf(charts[2][k])
              points == charts[2][k].points
          IN  /\ Len(points) = Len(e) - 1
              /\ \A n \in DOMAIN points :
                    points[n].value = F32Exact(Deaths(e, n + 1) - Deaths(e, n))
              /\ SumValues(points) = Deaths(e, Len(e)) - Deaths(e, 1)

(* C9: each plotted region gets the same enumerate index in all four panels,
   two plotted regions never share an index inside a panel, and when the run
   ends every plotted region has its index in each panel. *)
C9_SameIndexInAllPanels ==
    /\ \A p, q \in 1..NumPanels :
          \A k \in DOMAIN charts[p] : \A l \in DOMAIN charts[q] :
              charts[p][k].name = charts[q][l].name
                  => charts[p][k].index = charts[q][l].index
    /\ \A p \in 1..NumPanels : \A k, l \in DOMAIN charts[p] :
          k # l => charts[p][k].index # charts[p][l].index
    /\ pc = "done" =>
          \A r \in DOMAIN regions : Plotted(r) =>
              \A p \in 1..NumPanels :
                  \E k \in DOMAIN charts[p] : charts[p][k].name = regions[r].name

(* the run ends with two regions plotted after one the filter rejects *)
C9_Witness ==
    /\ pc = "done"
    /\ Len(regions) >= 3
    /\ ~Plotted(1)
    /\ \A p \in 1..NumPanels : Len(charts[p]) = 2

(* C10: the u32 subtractions of the daily and the averaged panel never
   underflow: the program does not panic on one, and every series it draws
   there comes from deaths that never decrease (nothing wrapped).  Checked
   under SpecGroupDraw, on the series get_per_country_data returns. *)
C10_DeltasNeverUnderflow ==
    /\ pc # "panic_overflow"
    /\ \A k \in DOMAIN charts[2] : NoUnderflow(EvolutionOf(charts[2][k]))
    /\ \A k \in DOMAIN charts[NumPanels] :
          charts[NumPanels][k].points # <<>>
              => NoUnderflow(EvolutionOf(charts[NumPanels][k]))

-----------------------------------------------------------------------------
(* What the code does keep of the properties above that it breaks *)

(* get_covid_data returns exactly the well-formed records that come before
   the first record of their file that fails to parse: a wrong-length record
   loses nothing, a failing one loses the rest of its file and nothing of
   the other files.  Holds under SpecParse. *)
ParsedUpToFirstError ==
    Returned =>
        /\ \A f \in DataFiles : \A j \in DOMAIN files[f].rows :
              InResult(f, j) <=> (WellFormed(f, j) /\ Reached(f, j))
        /\ \A k \in DOMAIN origin : origin[k][1] \in DataFiles

(* Where the deaths of a series never decrease, its daily deltas are the
   len(S) - 1 differences and they telescope.  Holds under SpecDraw. *)
DailyDeltaWithoutUnderflow ==
    \A k \in DOMAIN charts[2] :
        LET e == EvolutionOf(charts[2][k])
            points == charts[2][k].points
        IN  NoUnderflow(e) =>
                /\ Len(points) = Len(e) - 1
                /\ \A n \in DOMAIN points :
                      points[n].value = F32Exact(Deaths(e, n + 1) - Deaths(e, n))
                /\ SumValues(points) = Deaths(e, Len(e)) - Deaths(e, 1)

(* In a run that ends, the averaged panel holds len(D) - W + 1 points for
   every plotted region, none when len(D) < W, each the integer quotient of
   the window's sum where nothing underflows.  Holds under SpecDraw. *)
AveragedPointCount ==
    pc = "done" =>
        \A r \in DOMAIN regions :
            Plotted(r) =>
                \E k \in DOMAIN charts[NumPanels] :
                    LET e == regions[r].evolution
                        points == charts[NumPanels][k].points
                    IN  /\ charts[NumPanels][k].pos = r
                        /\ Len(points) = ExpectedAveraged(e)
                        /\ NoUnderflow(e) =>
                              \A n \in DOMAIN points :
                                  points[n].value =
                                      F32Exact(WindowSum(e, n + AverageWindow) \div AverageWindow)

=============================================================================
